---- MODULE Spec2Model ----
(***************************************************************************)
(* QDirStat read-job engine: DirReadJobQueue, DirReadJob and its variants  *)
(* LocalDirReadJob, CacheReadJob and PkgReadJob, and PkgReader.            *)
(*                                                                         *)
(* The engine is single-threaded: every handler (a timer tick, abort(),    *)
(* a subtree deletion, a process-exit slot) runs to completion, so each    *)
(* handler is one action.  The C++ functions are operators that take the   *)
(* program state as a record s and return the new record.                  *)
(***************************************************************************)
EXTENDS Integers, Sequences, FiniteSets, TLC

VARIABLES
    cfg,          \* the scanned file system / package database (fixed input)
    tree,         \* DirTree: path |-> node
    jobs,         \* the DirReadJob objects that exist: job id |-> fields
    queue,        \* DirReadJobQueue::_queue
    blocked,      \* DirReadJobQueue::_blocked
    timerActive,  \* DirReadJobQueue::_timer.isActive()
    sig,          \* signals emitted by the last handler, in order
    ran,          \* jobs whose read() the last handler invoked, in order
    enq,          \* jobs the last handler passed to enqueue(), in order
    reading,      \* a job was added and finished() not emitted since
    starts,       \* startingReading() emissions since the last finished()
    lastOp,       \* the last handler and its argument
    deletes,      \* number of subtree deletions so far
    proc,         \* Process objects of PkgReader: pkg |-> state
    starter,      \* ProcessStarter
    pkgPc,        \* position of PkgReader::read()
    pkgList,      \* the PkgInfo items of PkgReader::_pkgList
    crashed,      \* the process was terminated by a memory fault
    freed,        \* destroyed jobs whose members the last handler accessed
    events,       \* signals and read state changes of the last handler, in order
    history       \* since construction: the jobs dispatched and the finished() count

vars == <<cfg, tree, jobs, queue, blocked, timerActive, sig, ran, enq, reading,
          starts, lastOp, deletes, proc, starter, pkgPc, pkgList, crashed, freed,
          events, history>>

----------------------------------------------------------------------------
(* Bounds *)

MaxIno == 2
MaxDeletes == 1
NumPkgs == 2
MaxPkgList == 3

(* Program constants *)

CacheLinesPerRead == 1000
DefaultMaxParallelProcesses == 6

----------------------------------------------------------------------------
(* Paths.  A node is identified by its path from the tree's root. *)

NoDir == <<>>
Root == <<"root">>
Top == <<"root", "t">>
DirA == <<"root", "t", "a">>
DirB == <<"root", "t", "b">>
DirC == <<"root", "t", "a", "c">>
PkgTop == <<"root", "Pkg:">>

CacheName == ".qdirstat.cache.gz"
TreeDevice == "devA"

PkgNames == <<"p1", "p2", "p3", "p4">>
Pkgs == {PkgNames[i] : i \in 1..NumPkgs}
PkgPath(p) == <<"root", "Pkg:", p>>

Parent(p) == SubSeq(p, 1, Len(p) - 1)
Last(p) == p[Len(p)]
IsInSubtree(d, subtree) ==
    Len(subtree) <= Len(d) /\ SubSeq(d, 1, Len(subtree)) = subtree
Ancestors(d) == {SubSeq(d, 1, k) : k \in 1..Len(d)}
IsTopLevel(d) == Parent(d) = Root

NoJob == <<"none", NoDir>>
LocalJob(d) == <<"Local", d>>
CacheJob(d) == <<"Cache", d>>
PkgJob(p) == <<"Pkg", PkgPath(p)>>

----------------------------------------------------------------------------
(* The scanned file system (input) *)

FsEntries(d) ==
    IF d = Top
    THEN <<"a", "b", "f">> \o (IF cfg.cache = "matchTop" THEN <<CacheName>> ELSE <<>>)
    ELSE IF d = DirA
    THEN <<"c", "g">> \o (IF cfg.cache \in {"match", "mismatch"} THEN <<CacheName>> ELSE <<>>)
    ELSE IF d = DirB THEN <<"h">>
    ELSE <<>>

\* What readdir() returns for d.
ReadDir(d) == <<".", "..">> \o FsEntries(d)

FsIsDir(p) == p \in {Top, DirA, DirB, DirC}

FsIno(p) ==
    IF p = DirA THEN cfg.inoA
    ELSE IF Last(p) = CacheName THEN cfg.inoK
    ELSE IF p \in {DirB, Top \o <<"f">>, DirA \o <<"g">>} THEN 2
    ELSE 1

FsDev(p) == IF \E m \in cfg.otherDev : IsInSubtree(p, m) THEN 2 ELSE 1

StatOk(p) == p \notin cfg.statFail
AccessOk(d) == d \notin cfg.noAccess
OpendirOk(d) == d \notin cfg.noOpen

MountTableDevice(d) == IF d = NoDir THEN "" ELSE IF d = DirB THEN cfg.mtabB ELSE ""

ExcludeMatch(p) == p \in cfg.excluded

FirstDirInCache == IF cfg.cache = "match" THEN DirA
                   ELSE IF cfg.cache = "matchTop" THEN Top
                   ELSE <<"root", "elsewhere">>

----------------------------------------------------------------------------
(* Tree nodes (DirInfo / FileInfo / PkgInfo) *)

NewDirInfo(kind) ==
    [kind |-> kind, readState |-> "DirQueued", pending |-> 0,
     excluded |-> FALSE, mountPoint |-> FALSE, children |-> <<>>]

NewFileInfo ==
    [kind |-> "file", readState |-> "none", pending |-> 0,
     excluded |-> FALSE, mountPoint |-> FALSE, children |-> <<>>]

IsDirInfo(n) == n.kind \in {"dir", "pkg"}

ReadJobAdded(s, d) ==
    LET t == s.tree IN
    [s EXCEPT !.tree = [n \in DOMAIN t |->
        IF n \in Ancestors(d) THEN [t[n] EXCEPT !.pending = @ + 1] ELSE t[n]]]

ReadJobFinished(s, d) ==
    LET t == s.tree IN
    [s EXCEPT !.tree = [n \in DOMAIN t |->
        IF n \in Ancestors(d) THEN [t[n] EXCEPT !.pending = @ - 1] ELSE t[n]]]

\* The read state of d changes (history of the handler).
LogReadState(s, d, newState) ==
    [s EXCEPT !.events = Append(@, <<"setReadState", d, newState>>)]

ReadJobAborted(s, d) ==
    IF d \in DOMAIN s.tree
    THEN LogReadState([s EXCEPT !.tree[d].readState = "DirAborted"], d, "DirAborted")
    ELSE s

SetReadState(s, d, newState) ==
    LogReadState([s EXCEPT !.tree[d].readState = newState], d, newState)

InsertChild(s, parent, child, node) ==
    LET t == s.tree IN
    [s EXCEPT !.tree = [n \in DOMAIN t \cup {child} |->
        IF n = child THEN node
        ELSE IF n = parent THEN [t[n] EXCEPT !.children = Append(@, child)]
        ELSE t[n]]]

FindNearestMountPoint(s, d) ==
    LET mps == {a \in Ancestors(d) : a \in DOMAIN s.tree /\ s.tree[a].mountPoint} IN
    IF mps = {} THEN NoDir
    ELSE CHOOSE a \in mps : \A b \in mps : Len(b) <= Len(a)

MatchDirectChildren(s, d) ==
    \E i \in 1..Len(s.tree[d].children) :
        LET c == s.tree[d].children[i] IN
        /\ s.tree[c].kind = "file"
        /\ Last(c) \in cfg.lateNames

Emit(s, name, node) ==
    [s EXCEPT !.sig = Append(@, <<name, node>>),
              !.events = Append(@, <<name, node, "">>)]

----------------------------------------------------------------------------
(* DirReadJob *)

NewDirReadJob(s, j, kind, d, lines) ==
    LET s1 == [s EXCEPT !.jobs = (j :> [kind |-> kind, dir |-> d, queue |-> FALSE,
                                         started |-> FALSE, applyRules |-> FALSE,
                                         lines |-> lines, readerOk |-> TRUE,
                                         fileList |-> <<>>]) @@ @]
    IN IF d # NoDir THEN ReadJobAdded(s1, d) ELSE s1

DeleteDirReadJob(s, j) ==
    LET d == s.jobs[j].dir
        s1 == [s EXCEPT !.jobs = [k \in DOMAIN @ \ {j} |-> @[k]]]
    IN IF d # NoDir THEN ReadJobFinished(s1, d) ELSE s1

RECURSIVE DeleteAll(_, _)
DeleteAll(s, list) ==
    IF list = <<>> THEN s
    ELSE DeleteAll(DeleteDirReadJob(s, Head(list)), Tail(list))

RemoveOne(list, x) ==
    IF \E i \in 1..Len(list) : list[i] = x
    THEN LET i == CHOOSE k \in 1..Len(list) :
                      list[k] = x /\ \A m \in 1..(k - 1) : list[m] # x
         IN SubSeq(list, 1, i - 1) \o SubSeq(list, i + 1, Len(list))
    ELSE list

RemoveAll(list, x) == SelectSeq(list, LAMBDA y : y # x)

\* What undefined behaviour does in the handler that runs: the access goes
\* unnoticed, or the process is terminated.
UbOutcomes == {"benign", "crash"}

\* The running code reads a member of job j.  If j was destroyed before,
\* this is a read of freed memory.
AccessMember(s, j) ==
    IF j \in DOMAIN s.jobs THEN s
    ELSE [s EXCEPT !.freed = Append(@, j),
                   !.crashed = IF s.ub = "crash" THEN TRUE ELSE @]

\* A call through a null pointer.
NullDereference(s) == [s EXCEPT !.crashed = TRUE]

----------------------------------------------------------------------------
(* DirReadJobQueue *)

EnqueuePrepend(s, j) ==
    LET s1 == [s EXCEPT !.queue = <<j>> \o @, !.jobs[j].queue = TRUE,
                        !.reading = TRUE, !.enq = Append(@, j)]
    IN IF ~ s1.timerActive
       THEN [Emit(s1, "startingReading", NoDir) EXCEPT
                !.timerActive = TRUE,
                !.starts = IF @ < 2 THEN @ + 1 ELSE @]
       ELSE s1

Enqueue(s, j) ==
    LET s1 == [s EXCEPT !.queue = Append(@, j), !.jobs[j].queue = TRUE,
                        !.reading = TRUE, !.enq = Append(@, j)]
    IN IF ~ s1.timerActive
       THEN [Emit(s1, "startingReading", NoDir) EXCEPT
                !.timerActive = TRUE,
                !.starts = IF @ < 2 THEN @ + 1 ELSE @]
       ELSE s1

Clear(s) ==
    LET s1 == DeleteAll(s, s.queue)
        s2 == DeleteAll(s1, s1.blocked)
    IN [s2 EXCEPT !.queue = <<>>, !.blocked = <<>>]

RECURSIVE AbortAll(_, _)
AbortAll(s, list) ==
    IF list = <<>> THEN s
    ELSE LET d == s.jobs[Head(list)].dir IN
         AbortAll(IF d # NoDir THEN ReadJobAborted(s, d) ELSE s, Tail(list))

AbortQueueOnly(s) == Clear(AbortAll(s, s.queue))

Abort(s) == Clear(AbortAll(AbortAll(s, s.queue), s.blocked))

RECURSIVE KillIter(_, _, _, _, _)
KillIter(s, rest, kept, subtree, exceptJob) ==
    IF rest = <<>> THEN [s |-> s, kept |-> kept]
    ELSE LET job == Head(rest) IN
         IF exceptJob # NoJob /\ job = exceptJob
         THEN KillIter(s, Tail(rest), Append(kept, job), subtree, exceptJob)
         ELSE IF s.jobs[job].dir # NoDir /\ IsInSubtree(s.jobs[job].dir, subtree)
         THEN KillIter(DeleteDirReadJob(s, job), Tail(rest), kept, subtree, exceptJob)
         ELSE KillIter(s, Tail(rest), Append(kept, job), subtree, exceptJob)

KillAllQueueOnly(s, subtree, exceptJob) ==
    IF subtree = NoDir THEN s
    ELSE LET r1 == KillIter(s, s.queue, <<>>, subtree, exceptJob)
         IN [r1.s EXCEPT !.queue = r1.kept]

KillAll(s, subtree, exceptJob) ==
    IF subtree = NoDir THEN s
    ELSE LET r1 == KillIter(s, s.queue, <<>>, subtree, exceptJob)
             s1 == [r1.s EXCEPT !.queue = r1.kept]
             r2 == KillIter(s1, s1.blocked, <<>>, subtree, exceptJob)
         IN [r2.s EXCEPT !.blocked = r2.kept]

JobFinishedNotifyWithoutSignal(s, j) ==
    LET s1 == IF j # NoJob
              THEN DeleteDirReadJob([s EXCEPT !.queue = RemoveOne(@, j)], j)
              ELSE s
    IN IF s1.queue = <<>>
       THEN [s1 EXCEPT !.timerActive = FALSE]
       ELSE s1

JobFinishedNotify(s, j) ==
    LET s1 == IF j # NoJob
              THEN DeleteDirReadJob([s EXCEPT !.queue = RemoveOne(@, j)], j)
              ELSE s
    IN IF s1.queue = <<>>
       THEN LET s2 == [s1 EXCEPT !.timerActive = FALSE] IN
            IF s2.blocked = <<>>
            THEN [Emit(s2, "finished", NoDir) EXCEPT !.reading = FALSE, !.starts = 0]
            ELSE s2
       ELSE s1

DeletingChildNotify(s, child) ==
    IF child # NoDir /\ IsDirInfo(s.tree[child])
    THEN KillAll(s, child, NoJob)
    ELSE s

AddBlocked(s, j) == [s EXCEPT !.blocked = Append(@, j), !.reading = TRUE]

Unblock(s, j) == Enqueue([s EXCEPT !.blocked = RemoveAll(@, j)], j)

Finished(s, j) ==
    IF s.jobs[j].queue THEN JobFinishedNotify(s, j) ELSE s

----------------------------------------------------------------------------
(* DirTree operations the jobs call *)

AddJob(s, j) == Enqueue(s, j)

RemoveSubtree(s, d) ==
    LET t == s.tree IN
    [s EXCEPT !.tree = [n \in {m \in DOMAIN t : ~ IsInSubtree(m, d)} |->
        IF n = Parent(d)
        THEN [t[n] EXCEPT !.children = SelectSeq(@, LAMBDA c : c # d)]
        ELSE t[n]]]

DeleteSubtree(s, d) ==
    RemoveSubtree(DeletingChildNotify(Emit(s, "deletingChild", d), d), d)

ClearSubtree(s, d) ==
    LET t == s.tree IN
    [s EXCEPT !.tree = [n \in {m \in DOMAIN t : m = d \/ ~ IsInSubtree(m, d)} |->
        IF n = d THEN [t[n] EXCEPT !.children = <<>>] ELSE t[n]]]

TreeClear(s) ==
    LET s1 == Clear(s)
        t == s1.tree
    IN [s1 EXCEPT !.tree = [n \in {Root} |-> [t[n] EXCEPT !.children = <<>>]]]

\* CacheReadJob::init() deletes a reader that is not ok() and leaves
\* _reader = 0; the job then has no lines to read.
NoReader == -1

TreeReadCache(s) ==
    AddJob(NewDirReadJob(s, CacheJob(Root), "Cache", NoDir,
                         IF cfg.cacheFileOk THEN cfg.cacheLines ELSE NoReader),
           CacheJob(Root))

----------------------------------------------------------------------------
(* LocalDirReadJob *)

\* QMap<ino_t, QString>::insert: the new entry replaces the entry that has
\* the same key.
MapInsert(m, d, name) ==
    LET before == SelectSeq(m, LAMBDA e : FsIno(d \o <<e>>) < FsIno(d \o <<name>>))
        after == SelectSeq(m, LAMBDA e : FsIno(d \o <<e>>) > FsIno(d \o <<name>>))
    IN before \o <<name>> \o after

\* QMultiMap<ino_t, QString>::insert: the new entry goes in front of the
\* entries that have the same key.
MultiMapInsert(m, d, name) ==
    LET before == SelectSeq(m, LAMBDA e : FsIno(d \o <<e>>) < FsIno(d \o <<name>>))
        after == SelectSeq(m, LAMBDA e : FsIno(d \o <<e>>) >= FsIno(d \o <<name>>))
    IN before \o <<name>> \o after

\* The readdir() loop: every entry but "." and ".." goes into the map.
RECURSIVE InsertEntries(_, _, _)
InsertEntries(m, d, names) ==
    IF names = <<>> THEN m
    ELSE InsertEntries(IF Head(names) # "." /\ Head(names) # ".."
                       THEN MultiMapInsert(m, d, Head(names))
                       ELSE m,
                       d, Tail(names))

EntryMap(d) == InsertEntries(<<>>, d, ReadDir(d))

FinishReading(s, d, readState) ==
    Emit(Emit(SetReadState(s, d, readState), "finalizeLocal", d), "readJobFinished", d)

ChildAdded(s, child) == Emit(s, "childAdded", child)

CrossingFileSystems(s, parent, child) ==
    IF FsDev(parent) = FsDev(child) THEN FALSE
    ELSE LET childDevice == MountTableDevice(child)
             nearest == MountTableDevice(FindNearestMountPoint(s, parent))
             parentDevice == IF nearest = "" THEN TreeDevice ELSE nearest
         IN IF parentDevice # "" /\ childDevice # ""
            THEN parentDevice # childDevice
            ELSE TRUE

NewLocalDirReadJobWithoutFlag(s, subDir) ==
    LET j == LocalJob(subDir)
        s1 == NewDirReadJob(s, j, "Local", subDir, -1)
    IN AddJob(s1, j)

NewLocalDirReadJob(s, subDir) ==
    LET j == LocalJob(subDir)
        s1 == NewDirReadJob(s, j, "Local", subDir, -1)
    IN AddJob([s1 EXCEPT !.jobs[j].applyRules = TRUE], j)

ProcessSubDirReadingExcluded(s, j, subDir) ==
    LET d == s.jobs[j].dir
        s1 == ChildAdded(InsertChild(s, d, subDir, NewDirInfo("dir")), subDir)
        s2 == IF ExcludeMatch(subDir)
              THEN FinishReading([s1 EXCEPT !.tree[subDir].excluded = TRUE],
                                 subDir, "DirOnRequestOnly")
              ELSE s1
    IN IF ~ CrossingFileSystems(s2, d, subDir)
       THEN NewLocalDirReadJob(s2, subDir)
       ELSE LET s3 == [s2 EXCEPT !.tree[subDir].mountPoint = TRUE] IN
            IF cfg.crossFileSystems
            THEN NewLocalDirReadJob(s3, subDir)
            ELSE FinishReading(s3, subDir, "DirOnRequestOnly")

ProcessSubDirIgnoringCrossSetting(s, j, subDir) ==
    LET d == s.jobs[j].dir
        s1 == ChildAdded(InsertChild(s, d, subDir, NewDirInfo("dir")), subDir)
    IN IF ExcludeMatch(subDir)
       THEN FinishReading([s1 EXCEPT !.tree[subDir].excluded = TRUE],
                          subDir, "DirOnRequestOnly")
       ELSE IF ~ CrossingFileSystems(s1, d, subDir)
       THEN NewLocalDirReadJob(s1, subDir)
       ELSE NewLocalDirReadJob([s1 EXCEPT !.tree[subDir].mountPoint = TRUE], subDir)

ProcessSubDir(s, j, subDir) ==
    LET d == s.jobs[j].dir
        s1 == ChildAdded(InsertChild(s, d, subDir, NewDirInfo("dir")), subDir)
    IN IF ExcludeMatch(subDir)
       THEN FinishReading([s1 EXCEPT !.tree[subDir].excluded = TRUE],
                          subDir, "DirOnRequestOnly")
       ELSE IF ~ CrossingFileSystems(s1, d, subDir)
       THEN NewLocalDirReadJob(s1, subDir)
       ELSE LET s2 == [s1 EXCEPT !.tree[subDir].mountPoint = TRUE] IN
            IF cfg.crossFileSystems
            THEN NewLocalDirReadJob(s2, subDir)
            ELSE FinishReading(s2, subDir, "DirOnRequestOnly")

ReadCacheFileKeepingParentState(s, j) ==
    LET d == s.jobs[j].dir
        cacheReadJob == CacheJob(d)
        s1 == NewDirReadJob(s, cacheReadJob, "Cache", Parent(d), cfg.cacheLines)
    IN IF FirstDirInCache = d
       THEN IF IsTopLevel(d)
            THEN LET s2 == AccessMember(TreeClear(s1), j) IN
                 [s |-> IF s2.crashed THEN s2 ELSE TreeReadCache(s2), result |-> TRUE]
            ELSE LET s3 == AddJob(s1, cacheReadJob)
                     s4 == KillAll(s3, d, cacheReadJob)
                 IN [s |-> DeleteSubtree(s4, d), result |-> TRUE]
       ELSE [s |-> DeleteDirReadJob(s1, cacheReadJob), result |-> FALSE]

ReadCacheFileKeepingJobOnMismatch(s, j) ==
    LET d == s.jobs[j].dir
        cacheReadJob == CacheJob(d)
        s1 == NewDirReadJob(s, cacheReadJob, "Cache", Parent(d), cfg.cacheLines)
    IN IF FirstDirInCache = d
       THEN IF IsTopLevel(d)
            THEN LET s2 == AccessMember(TreeClear(s1), j) IN
                 [s |-> IF s2.crashed THEN s2 ELSE TreeReadCache(s2), result |-> TRUE]
            ELSE LET s3 == AddJob(s1, cacheReadJob)
                     s4 == IF Parent(d) # NoDir
                           THEN SetReadState(s3, Parent(d), "DirReading")
                           ELSE s3
                     s5 == KillAll(s4, d, cacheReadJob)
                 IN [s |-> DeleteSubtree(s5, d), result |-> TRUE]
       ELSE [s |-> s1, result |-> FALSE]

ReadCacheFile(s, j) ==
    LET d == s.jobs[j].dir
        cacheReadJob == CacheJob(d)
        s1 == NewDirReadJob(s, cacheReadJob, "Cache", Parent(d), cfg.cacheLines)
    IN IF FirstDirInCache = d
       THEN IF IsTopLevel(d)
            THEN LET s2 == AccessMember(TreeClear(s1), j) IN
                 [s |-> IF s2.crashed THEN s2 ELSE TreeReadCache(s2), result |-> TRUE]
            ELSE LET s3 == AddJob(s1, cacheReadJob)
                     s4 == IF Parent(d) # NoDir
                           THEN SetReadState(s3, Parent(d), "DirReading")
                           ELSE s3
                     s5 == KillAll(s4, d, cacheReadJob)
                 IN [s |-> DeleteSubtree(s5, d), result |-> TRUE]
       ELSE [s |-> DeleteDirReadJob(s1, cacheReadJob), result |-> FALSE]

ExcludeDirLateWithoutKill(s, j) ==
    LET d == s.jobs[j].dir
        s1 == ClearSubtree(s, d)
    IN [s1 EXCEPT !.tree[d].excluded = TRUE]

ExcludeDirLate(s, j) ==
    LET d == s.jobs[j].dir
        s1 == ClearSubtree(KillAll(s, d, j), d)
    IN [s1 EXCEPT !.tree[d].excluded = TRUE]

HandleLstatErrorReadingChild(s, j, child) ==
    LET d == s.jobs[j].dir
        node == [NewDirInfo("dir") EXCEPT !.readState = "DirError"]
        s1 == ChildAdded(InsertChild(LogReadState(s, child, "DirError"), d, child, node),
                         child)
    IN NewLocalDirReadJob(s1, child)

HandleLstatError(s, j, child) ==
    LET d == s.jobs[j].dir
        node == [NewDirInfo("dir") EXCEPT !.readState = "DirError"]
    IN ChildAdded(InsertChild(LogReadState(s, child, "DirError"), d, child, node),
                  child)

\* The foreach loop of startReading() over the entries in i-number order.
\* returned = TRUE: readCacheFile() succeeded and startReading() returned.
RECURSIVE ProcessEntries(_, _, _)
ProcessEntries(s, j, names) ==
    IF names = <<>> THEN [s |-> s, returned |-> FALSE]
    ELSE LET d == s.jobs[j].dir
             entryName == Head(names)
             p == d \o <<entryName>>
         IN IF StatOk(p)
            THEN IF FsIsDir(p)
                 THEN ProcessEntries(ProcessSubDir(s, j, p), j, Tail(names))
                 ELSE LET r == IF entryName = CacheName
                               THEN ReadCacheFile(s, j)
                               ELSE [s |-> s, result |-> FALSE]
                      IN IF r.result
                         THEN [s |-> r.s, returned |-> TRUE]
                         ELSE ProcessEntries(
                                  ChildAdded(InsertChild(r.s, d, p, NewFileInfo), p),
                                  j, Tail(names))
            ELSE ProcessEntries(HandleLstatError(s, j, p), j, Tail(names))

LocalStartReadingKeepingFailedJob(s, j) ==
    LET d == s.jobs[j].dir IN
    IF ~ AccessOk(d) THEN FinishReading(s, d, "DirError")
    ELSE IF ~ OpendirOk(d) THEN FinishReading(s, d, "DirError")
    ELSE LET r == ProcessEntries(SetReadState(s, d, "DirReading"), j, EntryMap(d)) IN
         IF r.returned THEN r.s
         ELSE IF r.s.jobs[j].applyRules /\ MatchDirectChildren(r.s, d)
         THEN Finished(FinishReading(ExcludeDirLate(r.s, j), d, "DirOnRequestOnly"), j)
         ELSE Finished(FinishReading(r.s, d, "DirFinished"), j)

LocalStartReading(s, j) ==
    LET d == s.jobs[j].dir IN
    IF ~ AccessOk(d) THEN Finished(FinishReading(s, d, "DirError"), j)
    ELSE IF ~ OpendirOk(d) THEN Finished(FinishReading(s, d, "DirError"), j)
    ELSE LET r == ProcessEntries(SetReadState(s, d, "DirReading"), j, EntryMap(d)) IN
         IF r.returned THEN r.s
         ELSE IF r.s.jobs[j].applyRules /\ MatchDirectChildren(r.s, d)
         THEN Finished(FinishReading(ExcludeDirLate(r.s, j), d, "DirOnRequestOnly"), j)
         ELSE Finished(FinishReading(r.s, d, "DirFinished"), j)

----------------------------------------------------------------------------
(* CacheReader (DirTreeCache) and CacheReadJob *)

\* The directory the cache file describes, and the node it is inserted under.
CacheTarget(s, j) ==
    IF s.jobs[j].dir = NoDir THEN Top ELSE FirstDirInCache

HasReader(s, j) == s.jobs[j].lines # NoReader

ReaderEof(s, j) == s.jobs[j].lines = 0

ReaderOk(s, j) == s.jobs[j].readerOk

\* CacheReader::read( maxLines ): consume up to maxLines lines and stop at a
\* line that does not parse; the first line creates the cached directory,
\* the end of the file finalizes it.
ReaderRead(s, j, maxLines) ==
    LET left == s.jobs[j].lines
        c == CacheTarget(s, j)
        done == cfg.cacheLines - left
        n == IF left < maxLines THEN left ELSE maxLines
        bad == cfg.cacheErrorAt > done /\ cfg.cacheErrorAt <= done + n
        s1 == IF /\ done = 0 /\ left > 0 /\ cfg.cacheErrorAt # 1
                 /\ Parent(c) \in DOMAIN s.tree
              THEN ChildAdded(
                       InsertChild(s, Parent(c), c,
                                   [NewDirInfo("dir") EXCEPT !.readState = "DirReading"]),
                       c)
              ELSE s
    IN IF bad
       THEN [s1 EXCEPT !.jobs[j].lines = cfg.cacheLines - cfg.cacheErrorAt,
                       !.jobs[j].readerOk = FALSE]
       ELSE LET s2 == [s1 EXCEPT !.jobs[j].lines = left - n] IN
            IF left > 0 /\ left - n = 0 /\ c \in DOMAIN s2.tree
            THEN FinishReading(s2, c, "DirFinished")
            ELSE s2

CacheReadUnbounded(s, j) ==
    IF ~ HasReader(s, j)
    THEN LET s1 == Finished(s, j) IN
         IF j \in DOMAIN s1.jobs THEN NullDereference(s1) ELSE AccessMember(s1, j)
    ELSE LET s1 == ReaderRead(s, j, s.jobs[j].lines) IN
         IF ReaderEof(s1, j) \/ ~ ReaderOk(s1, j) THEN Finished(s1, j) ELSE s1

\* Without a reader read() calls finished(), which destroys the job, and
\* goes on to _reader->read(): a read of the destroyed job's _reader.
CacheRead(s, j) ==
    IF ~ HasReader(s, j)
    THEN LET s1 == Finished(s, j) IN
         IF j \in DOMAIN s1.jobs THEN NullDereference(s1) ELSE AccessMember(s1, j)
    ELSE LET s1 == ReaderRead(s, j, CacheLinesPerRead) IN
         IF ReaderEof(s1, j) \/ ~ ReaderOk(s1, j) THEN Finished(s1, j) ELSE s1

----------------------------------------------------------------------------
(* PkgReadJob *)

\* What lstat() finds at an absolute path named by a package file list.
\* /s is a symbolic link to a directory that holds the file v: lstat()
\* follows the link for /s/v, not for /s.
PkgFsKind(path) ==
    IF path \in {<<"u">>, <<"u", "l">>} THEN "dir"
    ELSE IF path \in {<<"u", "x">>, <<"u", "l", "z">>, <<"s", "v">>} THEN "file"
    ELSE IF path = <<"s">> THEN "symlink"
    ELSE "fail"

PkgFsDev(path) == IF IsInSubtree(path, <<"u", "l">>) THEN 2 ELSE 1

FileLists ==
    { <<>>,
      << <<"u", "x">>, <<>>, <<"u", "l", "z">> >>,
      << <<"q">> >>,
      << <<"u", "y">>, <<"u", "x", "w">> >>,
      << <<"u", "l">>, <<"u", "l", "z">>, <<"u", "x">>, <<"u", "l", "z">> >>,
      << <<"s", "v">>, <<"u", "x">> >> }

\* LocalDirReadJob::stat( url, tree, parent, doThrow = false ) for the url
\* "/" + path, inserting under the node parent; found = FALSE: returned 0.
Stat(s, path, parent) ==
    LET child == parent \o <<Last(path)>> IN
    IF PkgFsKind(path) = "fail" THEN [s |-> s, found |-> FALSE, node |-> NoDir]
    ELSE IF PkgFsKind(path) = "dir"
    THEN LET s1 == InsertChild(s, parent, child, NewDirInfo("dir"))
             s2 == IF /\ ~ IsTopLevel(child)
                      /\ s1.tree[parent].kind # "pkg"
                      /\ PkgFsDev(path) # PkgFsDev(Parent(path))
                   THEN [s1 EXCEPT !.tree[child].mountPoint = TRUE]
                   ELSE s1
         IN [s |-> s2, found |-> TRUE, node |-> child]
    ELSE [s |-> InsertChild(s, parent, child, NewFileInfo),
          found |-> TRUE, node |-> child]

\* addFile() without locate(): every component is stat-ed and inserted anew.
RECURSIVE AddFileWalkWithoutLocate(_, _, _, _)
AddFileWalkWithoutLocate(s, remaining, currentPath, parent) ==
    IF remaining = <<>> THEN s
    ELSE LET currentName == Head(remaining)
             path == Append(currentPath, currentName)
             r == Stat(s, path, parent)
         IN IF ~ r.found THEN SetReadState(s, parent, "DirError")
            ELSE IF Tail(remaining) # <<>>
            THEN IF IsDirInfo(r.s.tree[r.node])
                 THEN AddFileWalkWithoutLocate(r.s, Tail(remaining), path, r.node)
                 ELSE r.s
            ELSE r.s

\* The while loop of addFile(): remaining components, the components walked
\* so far, and the current parent node.
RECURSIVE AddFileWalk(_, _, _, _)
AddFileWalk(s, remaining, currentPath, parent) ==
    IF remaining = <<>> THEN s
    ELSE LET currentName == Head(remaining)
             path == Append(currentPath, currentName)
             located == parent \o <<currentName>>
             r == IF located \in DOMAIN s.tree
                  THEN [s |-> s, found |-> TRUE, node |-> located]
                  ELSE Stat(s, path, parent)
         IN IF ~ r.found THEN SetReadState(s, parent, "DirError")
            ELSE IF Tail(remaining) # <<>>
            THEN IF IsDirInfo(r.s.tree[r.node])
                 THEN AddFileWalk(r.s, Tail(remaining), path, r.node)
                 ELSE r.s
            ELSE r.s

AddFileUnderFirstPkg(s, j, fileListPath) ==
    AddFileWalk(s, fileListPath, <<>>,
                IF PkgPath(PkgNames[1]) \in DOMAIN s.tree
                THEN PkgPath(PkgNames[1]) ELSE s.jobs[j].dir)

AddFile(s, j, fileListPath) == AddFileWalk(s, fileListPath, <<>>, s.jobs[j].dir)

RECURSIVE AddFiles(_, _, _)
AddFiles(s, j, fileList) ==
    IF fileList = <<>> THEN s
    ELSE AddFiles(IF Head(fileList) # <<>> THEN AddFile(s, j, Head(fileList)) ELSE s,
                  j, Tail(fileList))

RECURSIVE FinalizeAll(_, _)
RECURSIVE FinalizeChildren(_, _)
FinalizeChildren(s, children) ==
    IF children = <<>> THEN s
    ELSE FinalizeChildren(
             IF IsDirInfo(s.tree[Head(children)])
             THEN FinalizeAll(s, Head(children))
             ELSE s,
             Tail(children))

FinalizeAll(s, subtree) ==
    LET s1 == FinalizeChildren(s, s.tree[subtree].children)
        s2 == IF s1.tree[subtree].readState # "DirError"
              THEN SetReadState(s1, subtree, "DirFinished")
              ELSE s1
    IN Emit(s2, "finalizeLocal", subtree)

PkgStartReading(s, j) ==
    LET pkg == s.jobs[j].dir
        s1 == SetReadState(s, pkg, "DirReading")
        s2 == AddFiles(s1, j, s1.jobs[j].fileList)
        s3 == FinalizeAll(s2, pkg)
    IN Finished(Emit(s3, "readJobFinished", pkg), j)

ReadFileListFinishedAnyExitCode(s, j, exitCode, exitStatus, fileList) ==
    LET pkg == s.jobs[j].dir
        ok == exitStatus = "NormalExit"
    IN IF ok
       THEN Unblock([s EXCEPT !.jobs[j].fileList = fileList], j)
       ELSE Finished(Emit(SetReadState(s, pkg, "DirError"), "readJobFinished", pkg), j)

ReadFileListFinished(s, j, exitCode, exitStatus, fileList) ==
    LET pkg == s.jobs[j].dir
        ok == exitStatus = "NormalExit" /\ exitCode = 0
    IN IF ok
       THEN Unblock([s EXCEPT !.jobs[j].fileList = fileList], j)
       ELSE Finished(Emit(SetReadState(s, pkg, "DirError"), "readJobFinished", pkg), j)

----------------------------------------------------------------------------
(* DirReadJob::read() and the timer slot *)

Read(s, j) ==
    IF s.jobs[j].kind = "Cache" THEN CacheRead(s, j)
    ELSE IF ~ s.jobs[j].started
    THEN LET s1 == [s EXCEPT !.jobs[j].started = TRUE] IN
         IF s1.jobs[j].kind = "Local" THEN LocalStartReading(s1, j)
         ELSE PkgStartReading(s1, j)
    ELSE s

TimeSlicedRead(s) ==
    IF s.queue # <<>>
    THEN Read([s EXCEPT !.ran = Append(@, Head(s.queue))], Head(s.queue))
    ELSE s

----------------------------------------------------------------------------
(* ProcessStarter *)

Running(pr) == {p \in DOMAIN pr : pr[p] = "running"}

RECURSIVE StartProcesses(_)
StartProcesses(ps) ==
    IF ps.starter.waiting # <<>> /\ Cardinality(Running(ps.proc)) < ps.starter.maxParallel
    THEN StartProcesses(
             [proc |-> [ps.proc EXCEPT ![Head(ps.starter.waiting)] = "running"],
              starter |-> [ps.starter EXCEPT !.waiting = Tail(@)]])
    ELSE ps

StarterAdd(ps, p) ==
    LET ps1 == [ps EXCEPT !.starter.waiting = Append(@, p)] IN
    IF ps1.starter.started THEN StartProcesses(ps1) ELSE ps1

StarterStart(ps) == StartProcesses([ps EXCEPT !.starter.started = TRUE])

StarterProcessFinished(ps, p) == StartProcesses(ps)

----------------------------------------------------------------------------
(* PkgReader *)

MaxParallelProcesses ==
    IF cfg.maxParallelSetting < 0 THEN DefaultMaxParallelProcesses
    ELSE cfg.maxParallelSetting

\* PkgInfo( name, version, arch ): the name is the base name at first.
NewPkgInfo(baseName, version, arch) ==
    [baseName |-> baseName, version |-> version, arch |-> arch,
     name |-> baseName, multiVersion |-> FALSE, multiArch |-> FALSE]

\* _multiPkg.values( pkgName ): the positions in the package list of the
\* packages with that base name, the one inserted last first.
MultiPkgValues(list, pkgName) ==
    LET idx == SelectSeq([i \in 1..Len(list) |-> i],
                         LAMBDA i : list[i].baseName = pkgName)
    IN [k \in 1..Len(idx) |-> idx[Len(idx) + 1 - k]]

RECURSIVE SetNames(_, _, _, _, _)
SetNames(list, idxs, pkgName, sameVersion, sameArch) ==
    IF idxs = <<>> THEN list
    ELSE LET i == Head(idxs)
             name1 == IF ~ sameVersion THEN pkgName \o "-" \o list[i].version ELSE pkgName
             name2 == IF ~ sameArch THEN name1 \o ":" \o list[i].arch ELSE name1
         IN SetNames([list EXCEPT ![i].name = name2,
                                  ![i].multiVersion = IF ~ sameVersion THEN TRUE ELSE @,
                                  ![i].multiArch = IF ~ sameArch THEN TRUE ELSE @],
                     Tail(idxs), pkgName, sameVersion, sameArch)

CreateDisplayNameArchByVersion(list, pkgName) ==
    LET idxs == MultiPkgValues(list, pkgName) IN
    IF Len(idxs) < 2 THEN list
    ELSE LET version == list[idxs[1]].version
             sameVersion == \A k \in 2..Len(idxs) : list[idxs[k]].version = version
         IN SetNames(list, idxs, pkgName, sameVersion, sameVersion)

CreateDisplayName(list, pkgName) ==
    LET idxs == MultiPkgValues(list, pkgName) IN
    IF Len(idxs) < 2 THEN list
    ELSE LET version == list[idxs[1]].version
             arch == list[idxs[1]].arch
             sameVersion == \A k \in 2..Len(idxs) : list[idxs[k]].version = version
             sameArch == \A k \in 2..Len(idxs) : list[idxs[k]].arch = arch
         IN SetNames(list, idxs, pkgName, sameVersion, sameArch)

RECURSIVE CreateDisplayNames(_, _)
CreateDisplayNames(list, keys) ==
    IF keys = {} THEN list
    ELSE LET pkgName == CHOOSE k \in keys : TRUE IN
         CreateDisplayNames(CreateDisplayName(list, pkgName), keys \ {pkgName})

HandleMultiPkg(list) ==
    CreateDisplayNames(list, {list[i].baseName : i \in 1..Len(list)})

\* PkgQuery::installedPkg() for the packages whose file lists are read.
InstalledPkg == [i \in 1..NumPkgs |-> NewPkgInfo(PkgNames[i], "1.0", "x86_64")]

RECURSIVE InsertPkgs(_, _)
InsertPkgs(s, i) ==
    IF i > NumPkgs THEN s
    ELSE InsertPkgs(InsertChild(s, PkgTop, PkgPath(PkgNames[i]), NewDirInfo("pkg")), i + 1)

AddPkgToTree(s) ==
    LET s1 == InsertChild(s, Root, PkgTop, NewDirInfo("pkg"))
        s2 == InsertPkgs(s1, 1)
    IN Emit(SetReadState(s2, PkgTop, "DirFinished"), "finalizeLocal", PkgTop)

\* createReadFileListProcess() returns 0 for an empty command; the Process
\* it creates otherwise is not started.
HasFileListCommand(p) == p \notin cfg.emptyCmd

NewProcessStarted(pr, p) == [pr EXCEPT ![p] = "running"]

NewProcess(pr, p) == [pr EXCEPT ![p] = "created"]

----------------------------------------------------------------------------
(* Inputs *)

BaseCfg ==
    [mode |-> "local", inoA |-> 1, inoK |-> 1, cache |-> "none", cacheLines |-> 0,
     cacheErrorAt |-> 0, cacheFileOk |-> TRUE,
     noAccess |-> {}, noOpen |-> {}, statFail |-> {}, excluded |-> {},
     otherDev |-> {}, mtabB |-> "", crossFileSystems |-> FALSE, lateNames |-> {},
     maxParallelSetting |-> -1, emptyCmd |-> {}]

Features ==
    { BaseCfg,
      [BaseCfg EXCEPT !.noAccess = {DirB}],
      [BaseCfg EXCEPT !.noOpen = {DirC}],
      [BaseCfg EXCEPT !.statFail = {DirB \o <<"h">>}],
      [BaseCfg EXCEPT !.statFail = {DirA, Top \o <<"f">>}],
      [BaseCfg EXCEPT !.excluded = {DirC}],
      [BaseCfg EXCEPT !.excluded = {DirA}],
      [BaseCfg EXCEPT !.excluded = {DirB}, !.otherDev = {DirB}],
      [BaseCfg EXCEPT !.lateNames = {"g"}],
      [BaseCfg EXCEPT !.lateNames = {"f"}],
      [BaseCfg EXCEPT !.lateNames = {"f", "g"}] }
    \cup { [BaseCfg EXCEPT !.otherDev = {DirB}, !.mtabB = m, !.crossFileSystems = x] :
               m \in {"", "devA", "devB"}, x \in BOOLEAN }

CacheChoices ==
    { [cache |-> "none", cacheLines |-> 0, cacheErrorAt |-> 0],
      [cache |-> "mismatch", cacheLines |-> 0, cacheErrorAt |-> 0] }
    \cup { [cache |-> c, cacheLines |-> n[1], cacheErrorAt |-> n[2]] :
               c \in {"match", "matchTop"},
               n \in { <<0, 0>>, <<CacheLinesPerRead, 0>>, <<CacheLinesPerRead + 1, 0>>,
                       <<CacheLinesPerRead + 1, 1>>,
                       <<2 * CacheLinesPerRead + 1, CacheLinesPerRead + 1>> } }

LocalConfigs ==
    { [f EXCEPT !.inoA = a, !.inoK = k, !.cache = c.cache, !.cacheLines = c.cacheLines,
                !.cacheErrorAt = c.cacheErrorAt] :
          f \in Features, a \in 1..MaxIno, k \in 1..MaxIno, c \in CacheChoices }

PkgConfigs ==
    { [BaseCfg EXCEPT !.mode = "pkg", !.maxParallelSetting = m, !.emptyCmd = e] :
          m \in {-1, 1, 2}, e \in {{}, {PkgNames[1]}} }

\* The user opens a cache file: one that cannot be read, or one of n lines.
CacheConfigs ==
    { [BaseCfg EXCEPT !.mode = "cache", !.cache = "matchTop", !.cacheFileOk = FALSE] }
    \cup { [BaseCfg EXCEPT !.mode = "cache", !.cache = "matchTop", !.cacheLines = n] :
               n \in {0, CacheLinesPerRead + 1} }

Configs ==
    {c \in LocalConfigs : c.cache = "none" => c.inoK = 1} \cup PkgConfigs
        \cup CacheConfigs

----------------------------------------------------------------------------
(* State <-> record *)

Cur ==
    [tree |-> tree, jobs |-> jobs, queue |-> queue, blocked |-> blocked,
     timerActive |-> timerActive, sig |-> <<>>, ran |-> <<>>, enq |-> <<>>,
     reading |-> reading, starts |-> starts,
     crashed |-> crashed, freed |-> <<>>, ub |-> "benign", events |-> <<>>]

Commit(s) ==
    /\ tree' = s.tree
    /\ jobs' = s.jobs
    /\ queue' = s.queue
    /\ blocked' = s.blocked
    /\ timerActive' = s.timerActive
    /\ sig' = s.sig
    /\ ran' = s.ran
    /\ enq' = s.enq
    /\ reading' = s.reading
    /\ starts' = s.starts
    /\ crashed' = s.crashed
    /\ freed' = s.freed
    /\ events' = s.events
    /\ history' = [dispatched |-> history.dispatched \o s.ran,
                   finished |-> history.finished
                       + Cardinality({i \in 1..Len(s.sig) : s.sig[i][1] = "finished"})]

Op(name, arg, ok) == [op |-> name, arg |-> arg, ok |-> ok]

Idle == pkgPc.pc \in {"idle", "done"}

Init ==
    /\ cfg \in Configs
    /\ tree = (Root :> [NewDirInfo("dir") EXCEPT !.readState = "DirFinished"])
    /\ jobs = << >>
    /\ queue = << >>
    /\ blocked = << >>
    /\ timerActive = FALSE
    /\ sig = << >>
    /\ ran = << >>
    /\ enq = << >>
    /\ reading = FALSE
    /\ starts = 0
    /\ lastOp = Op("init", NoDir, TRUE)
    /\ deletes = 0
    /\ proc = [p \in Pkgs |-> "none"]
    /\ starter = [started |-> FALSE, maxParallel |-> 0, waiting |-> << >>]
    /\ pkgPc = [pc |-> "idle", i |-> 1]
    /\ pkgList = InstalledPkg
    /\ crashed = FALSE
    /\ freed = << >>
    /\ events = << >>
    /\ history = [dispatched |-> << >>, finished |-> 0]

----------------------------------------------------------------------------
(* Actions: one per handler *)

\* DirTree::startReading(): create the toplevel node and its seed job.
StartReading ==
    /\ ~ crashed
    /\ cfg.mode = "local"
    /\ lastOp.op = "init"
    /\ LET s1 == InsertChild(Cur, Root, Top, NewDirInfo("dir"))
           s2 == NewDirReadJob(s1, LocalJob(Top), "Local", Top, -1)
       IN Commit(AddJob(s2, LocalJob(Top)))
    /\ lastOp' = Op("startReading", Top, TRUE)
    /\ UNCHANGED <<cfg, pkgList, deletes, proc, starter, pkgPc>>

\* DirTree::readCache(): the user opens a cache file.
ReadCache ==
    /\ ~ crashed
    /\ cfg.mode = "cache"
    /\ lastOp.op = "init"
    /\ Commit(TreeReadCache(Cur))
    /\ lastOp' = Op("readCache", NoDir, TRUE)
    /\ UNCHANGED <<cfg, pkgList, deletes, proc, starter, pkgPc>>

\* The timer fires.
Tick ==
    /\ ~ crashed
    /\ timerActive
    /\ Idle
    /\ \E outcome \in UbOutcomes : Commit(TimeSlicedRead([Cur EXCEPT !.ub = outcome]))
    /\ lastOp' = Op("timeSlicedRead", IF queue = << >> THEN NoDir ELSE Head(queue)[2], TRUE)
    /\ UNCHANGED <<cfg, pkgList, deletes, proc, starter, pkgPc>>

\* The user stops reading: DirReadJobQueue::abort().
AbortReading ==
    /\ ~ crashed
    /\ Idle
    /\ queue # << >> \/ blocked # << >>
    /\ Commit(Abort(Cur))
    /\ lastOp' = Op("abort", NoDir, TRUE)
    /\ UNCHANGED <<cfg, pkgList, deletes, proc, starter, pkgPc>>

\* A directory node is deleted from the tree.
DeleteSubtreeOp ==
    /\ ~ crashed
    /\ Idle
    /\ deletes < MaxDeletes
    /\ \E d \in DOMAIN tree \ {Root} :
        /\ IsDirInfo(tree[d])
        /\ Commit(DeleteSubtree(Cur, d))
        /\ lastOp' = Op("deleteSubtree", d, TRUE)
    /\ deletes' = deletes + 1
    /\ UNCHANGED <<cfg, pkgList, proc, starter, pkgPc>>

\* PkgReader::read() up to the loop of createReadJobs().
PkgRead ==
    /\ ~ crashed
    /\ cfg.mode = "pkg"
    /\ pkgPc.pc = "idle"
    /\ lastOp.op = "init"
    /\ Commit(AddPkgToTree(Cur))
    /\ starter' = [starter EXCEPT !.maxParallel = MaxParallelProcesses]
    /\ pkgPc' = [pc |-> "creating", i |-> 1]
    /\ lastOp' = Op("addPkgToTree", PkgTop, TRUE)
    /\ pkgList' = HandleMultiPkg(pkgList)
    /\ UNCHANGED <<cfg, deletes, proc>>

\* One iteration of the foreach loop of createReadJobs().
CreateReadJob ==
    /\ ~ crashed
    /\ pkgPc.pc = "creating"
    /\ pkgPc.i <= NumPkgs
    /\ LET p == PkgNames[pkgPc.i] IN
       IF HasFileListCommand(p)
       THEN LET s1 == NewDirReadJob(Cur, PkgJob(p), "Pkg", PkgPath(p), -1)
                ps == StarterAdd([proc |-> NewProcess(proc, p),
                                  starter |-> starter], p)
            IN /\ Commit(AddBlocked(s1, PkgJob(p)))
               /\ proc' = ps.proc
               /\ starter' = ps.starter
               /\ lastOp' = Op("createReadJob", PkgPath(p), TRUE)
       ELSE /\ Commit(Cur)
            /\ lastOp' = Op("createReadJob", PkgPath(p), FALSE)
            /\ UNCHANGED <<proc, starter>>
    /\ pkgPc' = [pkgPc EXCEPT !.i = @ + 1]
    /\ UNCHANGED <<cfg, pkgList, deletes>>

\* processStarter->start() at the end of createReadJobs().
StartStarter ==
    /\ ~ crashed
    /\ pkgPc.pc = "creating"
    /\ pkgPc.i > NumPkgs
    /\ LET ps == StarterStart([proc |-> proc, starter |-> starter]) IN
       /\ proc' = ps.proc
       /\ starter' = ps.starter
    /\ Commit(Cur)
    /\ pkgPc' = [pkgPc EXCEPT !.pc = "done"]
    /\ lastOp' = Op("starterStart", PkgTop, TRUE)
    /\ UNCHANGED <<cfg, pkgList, deletes>>

\* A file list process exits: the starter launches the next one and the
\* job's slot readFileListFinished() runs, if the job still exists.
ProcessExit ==
    /\ ~ crashed
    /\ Idle
    /\ \E p \in Running(proc) :
       \E outcome \in {<<0, "NormalExit">>, <<2, "NormalExit">>, <<0, "CrashExit">>} :
       \E fileList \in IF outcome = <<0, "NormalExit">> THEN FileLists ELSE {<< >>} :
        /\ LET exited == [proc EXCEPT ![p] = IF outcome = <<0, "NormalExit">>
                                              THEN "exitedOk" ELSE "exitedFail"]
               ps == StarterProcessFinished([proc |-> exited, starter |-> starter], p)
           IN
           /\ proc' = ps.proc
           /\ starter' = ps.starter
        /\ IF PkgJob(p) \in DOMAIN jobs
           THEN Commit(ReadFileListFinished(Cur, PkgJob(p), outcome[1], outcome[2], fileList))
           ELSE Commit(Cur)
        /\ lastOp' = Op("readFileListFinished", PkgPath(p), outcome = <<0, "NormalExit">>)
    /\ UNCHANGED <<cfg, pkgList, deletes, pkgPc>>

Next ==
    \/ StartReading
    \/ ReadCache
    \/ Tick
    \/ AbortReading
    \/ DeleteSubtreeOp
    \/ PkgRead
    \/ CreateReadJob
    \/ StartStarter
    \/ ProcessExit

Spec == Init /\ [][Next]_vars

----------------------------------------------------------------------------
(* Reading packages without user interference.  The event loop runs the     *)
(* timer slot while the timer is active and PkgReader::read() runs to its   *)
(* end; every file list process that runs exits at some time.               *)

InitPkg == Init /\ cfg.mode = "pkg"

NextPkg ==
    \/ PkgRead
    \/ CreateReadJob
    \/ StartStarter
    \/ ProcessExit
    \/ Tick

\* The guard of Tick: Tick is enabled exactly in these states.
TickEnabled == ~ crashed /\ timerActive /\ Idle

\* The last conjunct is WF_vars(Tick), written with TickEnabled for
\* ENABLED <<Tick>>_vars.
SpecPkg ==
    /\ InitPkg
    /\ [][NextPkg]_vars
    /\ WF_vars(PkgRead)
    /\ WF_vars(CreateReadJob)
    /\ WF_vars(StartStarter)
    /\ WF_vars(ProcessExit)
    /\ ([]<>(~ TickEnabled) \/ []<><<Tick>>_vars)

----------------------------------------------------------------------------
(* Scanning a directory tree without cache files and without user           *)
(* interference.  The application calls DirTree::startReading() and the     *)
(* event loop runs the timer slot while the timer is active.                *)

InitLocal == Init /\ cfg.mode = "local" /\ cfg.cache = "none"

NextLocal ==
    \/ StartReading
    \/ Tick

\* The last conjunct is WF_vars(Tick), written with TickEnabled for
\* ENABLED <<Tick>>_vars.
SpecLocal ==
    /\ InitLocal
    /\ [][NextLocal]_vars
    /\ WF_vars(StartReading)
    /\ ([]<>(~ TickEnabled) \/ []<><<Tick>>_vars)

----------------------------------------------------------------------------
(* PkgReader::handleMultiPkg() on its own, for any list of installed packages *)

BaseNames == {"foo", "bar"}
Versions == {"1.0", "2.0", "1:1.0"}
Archs == {"x86_64", "i686"}

PkgInfos == {NewPkgInfo(b, v, a) : b \in BaseNames, v \in Versions, a \in Archs}

PkgLists == UNION {[1..n -> PkgInfos] : n \in 0..MaxPkgList}

InitNames ==
    /\ cfg = [BaseCfg EXCEPT !.mode = "pkg"]
    /\ tree = (Root :> [NewDirInfo("dir") EXCEPT !.readState = "DirFinished"])
    /\ jobs = << >>
    /\ queue = << >>
    /\ blocked = << >>
    /\ timerActive = FALSE
    /\ sig = << >>
    /\ ran = << >>
    /\ enq = << >>
    /\ reading = FALSE
    /\ starts = 0
    /\ lastOp = Op("init", NoDir, TRUE)
    /\ deletes = 0
    /\ proc = [p \in Pkgs |-> "none"]
    /\ starter = [started |-> FALSE, maxParallel |-> 0, waiting |-> << >>]
    /\ pkgPc = [pc |-> "idle", i |-> 1]
    /\ pkgList \in PkgLists
    /\ crashed = FALSE
    /\ freed = << >>
    /\ events = << >>
    /\ history = [dispatched |-> << >>, finished |-> 0]

HandleMultiPkgOp ==
    /\ pkgPc.pc = "idle"
    /\ pkgList' = HandleMultiPkg(pkgList)
    /\ pkgPc' = [pkgPc EXCEPT !.pc = "named"]
    /\ lastOp' = Op("handleMultiPkg", NoDir, TRUE)
    /\ UNCHANGED <<cfg, tree, jobs, queue, blocked, timerActive, sig, ran, enq,
                   reading, starts, deletes, proc, starter, crashed, freed,
                   events, history>>

NextNames == HandleMultiPkgOp

SpecNames == InitNames /\ [][NextNames]_vars

----------------------------------------------------------------------------
(* Properties *)

Emitted(name) == \E i \in 1..Len(sig) : sig[i][1] = name
EmittedIn(sg, name, d) == \E i \in 1..Len(sg) : sg[i] = <<name, d>>
EmittedFor(name, d) == EmittedIn(sig, name, d)
Count(name, d) == Cardinality({i \in 1..Len(sig) : sig[i] = <<name, d>>})

TerminalStates == {"DirFinished", "DirOnRequestOnly", "DirError", "DirAborted"}

DirNodes == {n \in DOMAIN tree \ {Root} : IsDirInfo(tree[n])}

InList(list, j) == \E i \in 1..Len(list) : list[i] = j

\* C1: whenever the queue emits finished(), the runnable and the blocked
\* list are empty and every directory node of the tree is in a terminal read
\* state (DirFinished, DirOnRequestOnly, DirError or DirAborted).
C1_FinishedMeansAllTerminal ==
    Emitted("finished") =>
        /\ queue = << >>
        /\ blocked = << >>
        /\ \A n \in DirNodes : tree[n].readState \in TerminalStates


\* C2: whenever the runnable and the blocked list are both empty after a job
\* was enqueued or blocked, finished() has been emitted since and the timer
\* is not armed.
C2_EmptyListsMeanFinished ==
    (queue = << >> /\ blocked = << >>) => (~ reading /\ ~ timerActive)

\* C3: every timer tick invokes read() exactly once, on the job that was at
\* the head of the runnable list when the tick began.
C3_ExactlyOneRunPerTick ==
    [][lastOp'.op = "timeSlicedRead" =>
          (queue # << >> /\ ran' = <<Head(queue)>>)]_vars

StaysIn(list, newList) == SelectSeq(list, LAMBDA j : InList(newList, j))

\* C4: the runnable list is strict FIFO: the jobs that stay keep their
\* order, a job that enters is placed behind every job that was already
\* there, and a handler only ever runs the job at the head.
C4_StrictFifo ==
    [][/\ StaysIn(queue', queue) = StaysIn(queue, queue')
       /\ \A i, k \in 1..Len(queue') :
            (InList(queue, queue'[k]) /\ ~ InList(queue, queue'[i])) => k < i
       /\ \A i \in 1..Len(ran') : queue # << >> /\ ran'[i] = Head(queue)
       /\ \A i \in 2..Len(queue') :
            jobs'[queue'[i]].kind # "Cache" => ~ jobs'[queue'[i]].started]_vars

\* C4 witness: a tick ran the head job and left at least two jobs queued.
C4_Witness ==
    /\ lastOp.op = "timeSlicedRead"
    /\ Len(ran) = 1
    /\ Len(queue) >= 2

\* C5: startingReading() is emitted at most once between two finished()
\* emissions.
C5_StartingOncePerRun == starts <= 1

BoundInside(js, j, d) == js[j].dir # NoDir /\ IsInSubtree(js[j].dir, d)

\* C6: killAll( d ) without exceptJob (a directory node is deleted) removes
\* and destroys exactly the listed jobs bound to d or below; the other jobs
\* stay in their list, in the same order, untouched.
C6_KillAllExact ==
    [][lastOp'.op = "deleteSubtree" =>
          LET d == lastOp'.arg IN
          /\ queue' = SelectSeq(queue, LAMBDA j : ~ BoundInside(jobs, j, d))
          /\ blocked' = SelectSeq(blocked, LAMBDA j : ~ BoundInside(jobs, j, d))
          /\ DOMAIN jobs \ DOMAIN jobs' =
                 {j \in DOMAIN jobs :
                      (InList(queue, j) \/ InList(blocked, j)) /\ BoundInside(jobs, j, d)}
          /\ \A j \in DOMAIN jobs' : j \in DOMAIN jobs /\ jobs'[j] = jobs[j]
          /\ \A j \in DOMAIN jobs' :
                 (InList(queue', j) \/ InList(blocked', j)) => ~ BoundInside(jobs', j, d)]_vars

\* C6 witness: a deletion killed a job and spared another one.
C6_Witness ==
    /\ lastOp.op = "deleteSubtree"
    /\ LocalJob(lastOp.arg) \notin DOMAIN jobs
    /\ Len(lastOp.arg) = 3
    /\ Len(queue) + Len(blocked) >= 1
    /\ tree[Parent(lastOp.arg)].pending >= 1

\* C7: abort() empties both lists, destroys every listed job, leaves every
\* directory that was bound to one of them in DirAborted, and keeps the
\* children that are already in the tree.
C7_AbortMarksAndClears ==
    [][lastOp'.op = "abort" =>
          /\ queue' = << >>
          /\ blocked' = << >>
          /\ \A j \in DOMAIN jobs :
                 (InList(queue, j) \/ InList(blocked, j)) =>
                     /\ j \notin DOMAIN jobs'
                     /\ jobs[j].dir # NoDir =>
                            tree'[jobs[j].dir].readState = "DirAborted"
          /\ DOMAIN tree' = DOMAIN tree
          /\ \A n \in DOMAIN tree : tree'[n].children = tree[n].children]_vars

\* C7 witness: abort() hit a runnable job (its process had exited) and a
\* blocked job (its process still runs); both packages are DirAborted and
\* still children of the Pkg: node.
C7_Witness ==
    /\ lastOp.op = "abort"
    /\ \E p, q \in Pkgs :
        /\ proc[p] = "exitedOk"
        /\ proc[q] = "running"
        /\ PkgPath(p) \in DOMAIN tree /\ PkgPath(q) \in DOMAIN tree
        /\ tree[PkgPath(p)].readState = "DirAborted"
        /\ tree[PkgPath(q)].readState = "DirAborted"
        /\ InList(tree[PkgTop].children, PkgPath(p))
        /\ InList(tree[PkgTop].children, PkgPath(q))

\* C8: when the process of a blocked package job crashes or exits with a
\* non-zero code, the package is set to DirError, readJobFinished is sent
\* for it, the job is destroyed and is in neither list, and the other jobs
\* and packages are unchanged.
C8_FailedPkgJobIsGone ==
    [][(/\ lastOp'.op = "readFileListFinished"
        /\ ~ lastOp'.ok
        /\ <<"Pkg", lastOp'.arg>> \in DOMAIN jobs) =>
          LET pkg == lastOp'.arg
              j == <<"Pkg", pkg>>
          IN /\ tree'[pkg].readState = "DirError"
             /\ EmittedIn(sig', "readJobFinished", pkg)
             /\ j \notin DOMAIN jobs'
             /\ ~ InList(queue', j)
             /\ ~ InList(blocked', j)
             /\ \A k \in DOMAIN jobs \ {j} : k \in DOMAIN jobs' /\ jobs'[k] = jobs[k]
             /\ \A n \in DOMAIN tree :
                    ~ IsInSubtree(n, pkg) /\ n \notin Ancestors(pkg) => tree'[n] = tree[n]]_vars

ProcOf(j) == Last(j[2])

TopLevelFailure(fileList) ==
    \E i \in 1..Len(fileList) :
        fileList[i] # << >> /\ PkgFsKind(<<fileList[i][1]>>) = "fail"

\* C9: a package job is only dispatched after its own process has exited
\* normally with code 0.  Until then it is in the blocked list only; that
\* exit appends it to the runnable list; its dispatch leaves the package
\* DirFinished (DirError if a path failed at the package's top), sends
\* readJobFinished and destroys the job; an empty file list leaves the
\* package DirFinished without children.
C9_PkgJobRunsAfterProcessExit ==
    [][/\ \A j \in DOMAIN jobs' :
            jobs'[j].kind = "Pkg" =>
                /\ proc'[ProcOf(j)] # "exitedOk" =>
                       InList(blocked', j) /\ ~ InList(queue', j)
                /\ InList(queue', j) => proc'[ProcOf(j)] = "exitedOk"
                /\ ~ (InList(queue', j) /\ InList(blocked', j))
       /\ \A i \in 1..Len(ran') :
            jobs[ran'[i]].kind = "Pkg" =>
                LET j == ran'[i]
                    pkg == jobs[j].dir
                IN /\ proc[ProcOf(j)] = "exitedOk"
                   /\ tree'[pkg].readState =
                          IF TopLevelFailure(jobs[j].fileList)
                          THEN "DirError" ELSE "DirFinished"
                   /\ EmittedIn(sig', "readJobFinished", pkg)
                   /\ j \notin DOMAIN jobs'
                   /\ ~ InList(queue', j) /\ ~ InList(blocked', j)
                   /\ jobs[j].fileList = << >> =>
                          /\ tree'[pkg].readState = "DirFinished"
                          /\ tree'[pkg].children = << >>
       /\ (/\ lastOp'.op = "readFileListFinished"
           /\ lastOp'.ok
           /\ <<"Pkg", lastOp'.arg>> \in DOMAIN jobs) =>
              LET j == <<"Pkg", lastOp'.arg>> IN
              /\ queue' = Append(queue, j)
              /\ blocked' = SelectSeq(blocked, LAMBDA k : k # j)]_vars

\* C9 witness: a package job with an empty file list was dispatched behind
\* another job and left its package DirFinished without children.
C9_Witness ==
    /\ lastOp.op = "timeSlicedRead"
    /\ Len(lastOp.arg) = 3
    /\ lastOp.arg[2] = "Pkg:"
    /\ tree[lastOp.arg].readState = "DirFinished"
    /\ tree[lastOp.arg].children = << >>
    /\ \E p \in Pkgs : PkgPath(p) \in DOMAIN tree /\ tree[PkgPath(p)].children # << >>

\* C10: at most maxParallelProcesses file list processes run at any time,
\* and none is started before processStarter->start(), that is before every
\* package job is in the blocked list.
C10_BoundedProcesses ==
    /\ Cardinality(Running(proc)) <=
           (IF cfg.maxParallelSetting < 0 THEN DefaultMaxParallelProcesses
            ELSE cfg.maxParallelSetting)
    /\ (\E p \in Pkgs : proc[p] \in {"running", "exitedOk", "exitedFail"}) =>
           /\ starter.started
           /\ pkgPc.pc = "done"
           /\ \A p \in Pkgs : HasFileListCommand(p) => proc[p] # "none"

\* C10 witness: the cap is reached while another process is still waiting.
C10_Witness ==
    /\ Cardinality(Running(proc)) = MaxParallelProcesses
    /\ starter.waiting # << >>

----------------------------------------------------------------------------

\* A subdirectory found by a local scan (below the toplevel directory).
SubDirs == {n \in DirNodes : cfg.mode = "local" /\ Len(n) > Len(Top)}

OtherDevice(n) == FsDev(n) # FsDev(Parent(n))

\* The mount table names the same device for n and for the nearest mount
\* point above it (the tree's device if there is none).
SameMountTableDevice(n) ==
    LET nearest == MountTableDevice(FindNearestMountPoint(Cur, Parent(n)))
        parentDevice == IF nearest = "" THEN TreeDevice ELSE nearest
    IN MountTableDevice(n) # "" /\ MountTableDevice(n) = parentDevice

NeverRead(n) ==
    /\ tree[n].readState = "DirOnRequestOnly"
    /\ tree[n].children = << >>
    /\ \A j \in DOMAIN jobs : jobs[j].dir # n
    /\ ~ InList(enq, LocalJob(n))

CountIn(sg, name, d) == Cardinality({i \in 1..Len(sg) : sg[i] = <<name, d>>})

\* readCacheFile() replaces the scan of d by the cache file found in d.
CachePreempts(d) ==
    /\ InList(FsEntries(d), CacheName)
    /\ StatOk(d \o <<CacheName>>)
    /\ FirstDirInCache = d

\* The scan of d reads all entries, and a rule for file children matches one.
LateMatch(d) ==
    /\ AccessOk(d) /\ OpendirOk(d) /\ ~ CachePreempts(d)
    /\ \E i \in 1..Len(FsEntries(d)) :
          LET p == d \o <<FsEntries(d)[i]>> IN
          StatOk(p) /\ ~ FsIsDir(p) /\ FsEntries(d)[i] \in cfg.lateNames

\* The tick that begins runs startReading() of a local job for the first time.
LocalRun(j) ==
    /\ lastOp'.op = "timeSlicedRead"
    /\ queue # << >> /\ j = Head(queue)
    /\ jobs[j].kind = "Local" /\ ~ jobs[j].started

\* C12: when a local job with the apply-child-file-exclude-rules flag finds
\* a rule matching a direct file child, then after its run the directory is
\* excluded, DirOnRequestOnly and without children, every job the run had
\* enqueued for a subdirectory is out of the queue and destroyed, the other
\* jobs are untouched, and the job itself finished normally: exactly one
\* readJobFinished for the directory, and the job is destroyed by finished().
C12_LateExclude ==
    [][\A j \in DOMAIN jobs :
         (LocalRun(j) /\ jobs[j].applyRules /\ LateMatch(jobs[j].dir)) =>
            LET d == jobs[j].dir IN
            /\ ran' = <<j>>
            /\ tree'[d].excluded
            /\ tree'[d].readState = "DirOnRequestOnly"
            /\ tree'[d].children = << >>
            /\ tree'[d].pending = 0
            /\ \A n \in DOMAIN tree' : IsInSubtree(n, d) => n = d
            /\ \A i \in 1..Len(enq') :
                   /\ enq'[i] \notin DOMAIN jobs'
                   /\ ~ InList(queue', enq'[i])
                   /\ ~ InList(blocked', enq'[i])
            /\ CountIn(sig', "readJobFinished", d) = 1
            /\ j \notin DOMAIN jobs'
            /\ queue' = Tail(queue)
            /\ \A k \in DOMAIN jobs' : jobs'[k] = jobs[k]]_vars

\* C12 witness: the job of a was late-excluded after it had enqueued a job
\* for its subdirectory c.
C12_Witness ==
    /\ lastOp = Op("timeSlicedRead", DirA, TRUE)
    /\ ran = <<LocalJob(DirA)>>
    /\ enq = <<LocalJob(DirC)>>
    /\ tree[DirA].excluded
    /\ tree[DirA].readState = "DirOnRequestOnly"
    /\ tree[DirA].children = << >>
    /\ LocalJob(DirC) \notin DOMAIN jobs

\* C13: when a local job reading a directory d below the toplevel finds a
\* cache file whose first directory is d, then at the end of that tick the
\* job is destroyed without a readJobFinished for d, no job is bound to d
\* or below, d is out of the tree, the parent of d is DirReading, a
\* CacheReadJob bound to the parent is at the tail of the runnable list, and
\* the jobs bound outside d are untouched.
C13_CachePreemption ==
    [][\A j \in DOMAIN jobs :
         (/\ LocalRun(j)
          /\ ~ IsTopLevel(jobs[j].dir)
          /\ AccessOk(jobs[j].dir) /\ OpendirOk(jobs[j].dir)
          /\ CachePreempts(jobs[j].dir)) =>
            LET d == jobs[j].dir
                c == CacheJob(d)
            IN
            /\ j \notin DOMAIN jobs'
            /\ ~ EmittedIn(sig', "readJobFinished", d)
            /\ \A k \in DOMAIN jobs' : ~ BoundInside(jobs', k, d)
            /\ \A n \in DOMAIN tree' : ~ IsInSubtree(n, d)
            /\ ~ InList(tree'[Parent(d)].children, d)
            /\ tree'[Parent(d)].readState = "DirReading"
            /\ c \in DOMAIN jobs'
            /\ jobs'[c].kind = "Cache" /\ jobs'[c].dir = Parent(d)
            /\ queue' = SelectSeq(Tail(queue), LAMBDA k : ~ BoundInside(jobs, k, d))
                           \o <<c>>
            /\ blocked' = blocked
            /\ \A k \in DOMAIN jobs :
                   ~ BoundInside(jobs, k, d) => k \in DOMAIN jobs' /\ jobs'[k] = jobs[k]]_vars

\* C13 witness: the job of a found its cache file after it had enqueued a
\* job for c; both jobs are gone, the job of b is still queued in front of
\* the cache job.
C13_Witness ==
    /\ lastOp = Op("timeSlicedRead", DirA, TRUE)
    /\ InList(enq, LocalJob(DirC))
    /\ DirA \notin DOMAIN tree
    /\ tree[Top].readState = "DirReading"
    /\ queue = <<LocalJob(DirB), CacheJob(DirA)>>
    /\ DOMAIN jobs = {LocalJob(DirB), CacheJob(DirA)}

\* C14: a dispatch of a CacheReadJob consumes at most CacheLinesPerRead
\* lines.  If the reader is then neither at the end of the file nor in
\* error, the job stays at the head of the runnable list with the timer
\* armed; otherwise that dispatch calls finished(), which removes and
\* destroys the job.  So a job that was dispatched and still exists has a
\* reader that is neither at the end nor in error.
C14_CacheChunks ==
    [][/\ \A j \in DOMAIN jobs :
            (/\ lastOp'.op = "timeSlicedRead"
             /\ queue # << >> /\ j = Head(queue)
             /\ jobs[j].kind = "Cache") =>
               LET left == jobs[j].lines
                   done == cfg.cacheLines - left
                   errHere == /\ cfg.cacheErrorAt > done
                              /\ cfg.cacheErrorAt <= done + CacheLinesPerRead
               IN /\ ran' = <<j>>
                  /\ IF left > CacheLinesPerRead /\ ~ errHere
                     THEN /\ j \in DOMAIN jobs'
                          /\ jobs'[j].lines = left - CacheLinesPerRead
                          /\ jobs'[j].readerOk
                          /\ queue' = queue
                          /\ timerActive'
                     ELSE /\ j \notin DOMAIN jobs'
                          /\ queue' = Tail(queue)
                          /\ ~ InList(blocked', j)
       /\ \A j \in DOMAIN jobs' :
            jobs'[j].kind = "Cache" =>
               /\ jobs'[j].readerOk
               /\ jobs'[j].lines = 0 => cfg.cacheLines = 0]_vars

\* C14 witness: a cache job was dispatched, read CacheLinesPerRead lines
\* and is still at the head of the runnable list with lines left to read.
C14_Witness ==
    /\ lastOp.op = "timeSlicedRead"
    /\ queue # << >>
    /\ ran = <<Head(queue)>>
    /\ jobs[Head(queue)].kind = "Cache"
    /\ jobs[Head(queue)].lines = cfg.cacheLines - CacheLinesPerRead
    /\ jobs[Head(queue)].lines > 0
    /\ timerActive

\* The jobs of the children that wait to be read, in the children's order.
JobsOfQueued(tr, children) ==
    LET sel == SelectSeq(children,
                         LAMBDA c : tr[c].kind = "dir" /\ tr[c].readState = "DirQueued")
    IN [i \in 1..Len(sel) |-> LocalJob(sel[i])]

\* C15: when the run of a local job leaves its directory DirFinished, the
\* children inserted are one per directory entry other than "." and "..",
\* in non-decreasing i-number order (entries with the same i-number each
\* have their child), and the jobs of the subdirectories were enqueued in
\* the order of the children.
C15_ChildrenByInode ==
    [][\A j \in DOMAIN jobs :
         (/\ LocalRun(j)
          /\ j \notin DOMAIN jobs'
          /\ jobs[j].dir \in DOMAIN tree'
          /\ tree'[jobs[j].dir].readState = "DirFinished") =>
            LET d == jobs[j].dir
                ch == tree'[d].children
                entries == SelectSeq(ReadDir(d), LAMBDA e : e \notin {".", ".."})
            IN
            /\ Len(ch) = Len(entries)
            /\ {ch[i] : i \in 1..Len(ch)} = {d \o <<entries[i]>> : i \in 1..Len(entries)}
            /\ \A i, k \in 1..Len(ch) : i < k => FsIno(ch[i]) <= FsIno(ch[k])
            /\ \A i \in 1..Len(ch) : ch[i] \in DOMAIN tree'
            /\ enq' = JobsOfQueued(tree', ch)]_vars

\* C15 witness: the three entries of the toplevel directory share one
\* i-number; all three are children and the jobs of b and a were enqueued
\* in the children's order.
C15_Witness ==
    /\ lastOp = Op("timeSlicedRead", Top, TRUE)
    /\ cfg.inoA = 2
    /\ tree[Top].readState = "DirFinished"
    /\ Len(tree[Top].children) = 3
    /\ enq = <<LocalJob(DirB), LocalJob(DirA)>>
    /\ queue = enq

SameGroup(i, k) == pkgList[i].baseName = pkgList[k].baseName

Group(i) == {k \in 1..Len(pkgList) : SameGroup(i, k)}

\* C16: after handleMultiPkg() a package that is alone with its base name
\* has the base name as its name; in a group of two or more, every member
\* has "-<version>" appended and multiVersion set iff the versions of the
\* group are not all equal, then ":<arch>" appended and multiArch set iff
\* its architectures are not all equal; so two packages of a group that
\* differ in version or architecture have different names.
C16_DisplayNames ==
    pkgPc.pc = "named" =>
        \A i \in 1..Len(pkgList) :
            LET pkg == pkgList[i]
                multiVersion == \E k \in Group(i) : pkgList[k].version # pkg.version
                multiArch == \E k \in Group(i) : pkgList[k].arch # pkg.arch
            IN
            /\ Cardinality(Group(i)) = 1 =>
                   pkg.name = pkg.baseName /\ ~ pkg.multiVersion /\ ~ pkg.multiArch
            /\ Cardinality(Group(i)) >= 2 =>
                   /\ pkg.name = pkg.baseName
                                    \o (IF multiVersion THEN "-" \o pkg.version ELSE "")
                                    \o (IF multiArch THEN ":" \o pkg.arch ELSE "")
                   /\ pkg.multiVersion = multiVersion
                   /\ pkg.multiArch = multiArch
            /\ \A k \in Group(i) :
                   (pkgList[k].version # pkg.version \/ pkgList[k].arch # pkg.arch) =>
                       pkgList[k].name # pkg.name

\* C16 witness: two versions of foo, for different architectures, next to
\* a single bar.
C16_Witness ==
    /\ pkgPc.pc = "named"
    /\ Len(pkgList) = 3
    /\ \E i, k, m \in 1..3 :
          /\ pkgList[i].name = "foo-1:1.0:x86_64"
          /\ pkgList[k].name = "foo-2.0:i686"
          /\ pkgList[m].name = "bar"
          /\ pkgList[i].multiVersion /\ pkgList[i].multiArch
          /\ ~ pkgList[m].multiVersion /\ ~ pkgList[m].multiArch

\* No read job is outstanding in the subtree of d and d is DirFinished,
\* DirOnRequestOnly or DirError, between two handlers.
Settled(d) ==
    /\ Idle
    /\ tree[d].pending = 0
    /\ tree[d].readState \in {"DirFinished", "DirOnRequestOnly", "DirError"}

SubtreeUnchanged(d) ==
    \A n \in DOMAIN tree \cup DOMAIN tree' :
        IsInSubtree(n, d) => n \in DOMAIN tree /\ n \in DOMAIN tree' /\ tree'[n] = tree[n]

\* The step deletes a node: only that node's subtree and the child list of
\* its parent change.
ExplicitDelete(d) ==
    /\ lastOp'.op = "deleteSubtree"
    /\ \A n \in DOMAIN tree' :
          IsInSubtree(n, d) =>
              /\ n \in DOMAIN tree
              /\ tree'[n] = tree[n] \/ n = Parent(lastOp'.arg)
    /\ \A n \in DOMAIN tree \ DOMAIN tree' : IsInSubtree(n, lastOp'.arg)

\* C17: once a directory has no outstanding read job and is DirFinished,
\* DirOnRequestOnly or DirError, no step changes its read state or inserts,
\* removes or modifies a node of its subtree, except the deletion of a
\* node.
C17_SettledSubtreeStable ==
    [][\A d \in DirNodes :
          Settled(d) => SubtreeUnchanged(d) \/ ExplicitDelete(d)]_vars

\* C17 witness: the package p1 was read and has children; afterwards the
\* job of another package was dispatched and added its own files.
C17_Witness ==
    /\ lastOp.op = "timeSlicedRead"
    /\ \E p, q \in Pkgs :
          /\ p # q
          /\ lastOp.arg = PkgPath(q)
          /\ ran = <<PkgJob(q)>>
          /\ PkgPath(p) \in DOMAIN tree /\ PkgPath(q) \in DOMAIN tree
          /\ PkgJob(p) \notin DOMAIN jobs
          /\ tree[PkgPath(p)].pending = 0
          /\ tree[PkgPath(p)].readState = "DirFinished"
          /\ tree[PkgPath(p)].children # << >>
          /\ tree[PkgPath(q)].children # << >>

Occurrences(list, j) == Cardinality({i \in 1..Len(list) : list[i] = j})

\* C18: between two handlers every read job that exists is exactly once in
\* exactly one of the two lists of the queue, and every member of the two
\* lists is a job that exists.
C18_JobsOwnedByQueue ==
    Idle =>
        /\ \A j \in DOMAIN jobs : Occurrences(queue, j) + Occurrences(blocked, j) = 1
        /\ \A i \in 1..Len(queue) : queue[i] \in DOMAIN jobs
        /\ \A i \in 1..Len(blocked) : blocked[i] \in DOMAIN jobs

\* C19: a subdirectory that matches an exclude rule when it is found is a
\* child marked excluded and DirOnRequestOnly, no job is ever enqueued for
\* it and it has no children.
C19_ExcludedNeverRead ==
    \A n \in SubDirs :
        ExcludeMatch(n) =>
            /\ InList(tree[Parent(n)].children, n)
            /\ tree[n].excluded
            /\ NeverRead(n)

\* C19 witness: the scan is over; a is excluded and was not read although
\* the file system has entries below it.
C19_Witness ==
    /\ Emitted("finished")
    /\ DirA \in DOMAIN tree
    /\ ExcludeMatch(DirA)
    /\ tree[DirA].excluded
    /\ NeverRead(DirA)
    /\ FsEntries(DirA) # << >>
    /\ DirB \in DOMAIN tree /\ tree[DirB].children # << >>

\* C20 (as stated): every directory that is scanned, the directory of the
\* seed job included, ends excluded and DirOnRequestOnly if a rule for file
\* children matches one of its direct children.
C20_LateExcludeEverywhere ==
    [][\A j \in DOMAIN jobs :
         (LocalRun(j) /\ LateMatch(jobs[j].dir)) =>
            /\ tree'[jobs[j].dir].excluded
            /\ tree'[jobs[j].dir].readState = "DirOnRequestOnly"]_vars

\* C20 (amended): every scanned directory but the directory of the seed job
\* ends excluded and DirOnRequestOnly if a rule for file children matches
\* one of its direct children; the directory of the seed job ends
\* DirFinished, not excluded, with all its children.
C20_LateExcludeExceptSeed ==
    [][\A j \in DOMAIN jobs :
         (LocalRun(j) /\ LateMatch(jobs[j].dir)) =>
            LET d == jobs[j].dir IN
            IF IsTopLevel(d)
            THEN /\ ~ tree'[d].excluded
                 /\ tree'[d].readState = "DirFinished"
                 /\ Len(tree'[d].children) = Len(FsEntries(d))
            ELSE /\ tree'[d].excluded
                 /\ tree'[d].readState = "DirOnRequestOnly"]_vars

\* C20 witness: f in the toplevel directory and g in a both match a rule
\* for file children; a was late-excluded, the toplevel directory was not.
C20_Witness ==
    /\ lastOp = Op("timeSlicedRead", DirA, TRUE)
    /\ cfg.lateNames = {"f", "g"}
    /\ tree[DirA].excluded
    /\ tree[DirA].readState = "DirOnRequestOnly"
    /\ ~ tree[Top].excluded
    /\ tree[Top].readState = "DirFinished"
    /\ InList(tree[Top].children, Top \o <<"f">>)


\* The tick that begins runs startReading() of a package job.
PkgRun(j) ==
    /\ lastOp'.op = "timeSlicedRead"
    /\ queue # << >> /\ j = Head(queue)
    /\ jobs[j].kind = "Pkg" /\ ~ jobs[j].started

\* The non-empty prefixes of the paths of a file list.
Prefixes(fileList) ==
    UNION {{SubSeq(fileList[i], 1, k) : k \in 1..Len(fileList[i])} :
               i \in 1..Len(fileList)}

ProperPrefix(x, fileList) ==
    \E i \in 1..Len(fileList) : Len(x) < Len(fileList[i]) /\ IsInSubtree(fileList[i], x)

\* lstat() succeeds for every listed path (and so for every prefix of it).
AllStatable(fileList) == \A x \in Prefixes(fileList) : PkgFsKind(x) # "fail"

\* What kind of node stat() makes of a path.
NodeKind(x) == IF PkgFsKind(x) = "dir" THEN "dir" ELSE "file"

PrefixNodes(j) ==
    LET pkg == jobs[j].dir
        fileList == jobs[j].fileList
        below == {n \in DOMAIN tree' : IsInSubtree(n, pkg) /\ n # pkg}
    IN
    /\ below = {pkg \o x : x \in Prefixes(fileList)}
    /\ \A x \in Prefixes(fileList) :
          LET n == pkg \o x IN
          /\ n \in DOMAIN tree'
          /\ Occurrences(tree'[Parent(n)].children, n) = 1
          /\ tree'[n].kind = IF ProperPrefix(x, fileList) THEN "dir" ELSE NodeKind(x)
    /\ \A n \in below \cup {pkg} :
          \A i \in 1..Len(tree'[n].children) :
              tree'[n].children[i] \in below /\ Parent(tree'[n].children[i]) = n

\* C21 (as stated): when the job of a package runs with a file list whose
\* paths can all be stat-ed, then afterwards the nodes below the package
\* node are exactly one node per distinct non-empty prefix of the listed
\* paths, each once in the child list of its parent, a directory for a
\* proper prefix and the listed entry at the end; empty lines add nothing.
C21_PkgSubtreeIsPrefixes ==
    [][\A j \in DOMAIN jobs :
         (PkgRun(j) /\ AllStatable(jobs[j].fileList)) => PrefixNodes(j)]_vars

\* lstat() shows a directory for every proper prefix of a listed path.
PrefixesAreDirs(fileList) ==
    \A x \in Prefixes(fileList) : ProperPrefix(x, fileList) => PkgFsKind(x) = "dir"

\* C21 (amended): the same, for a file list in which lstat() shows a
\* directory (not a symbolic link to one) for every proper prefix of a
\* listed path; below a prefix that is not a directory nothing is added.
C21_PkgSubtreeIsPrefixesOfDirs ==
    [][\A j \in DOMAIN jobs :
         /\ (PkgRun(j) /\ AllStatable(jobs[j].fileList)
                /\ PrefixesAreDirs(jobs[j].fileList)) => PrefixNodes(j)
         /\ PkgRun(j) =>
               \A n \in DOMAIN tree' :
                  (IsInSubtree(n, jobs[j].dir) /\ n # jobs[j].dir) =>
                      tree'[Parent(n)].kind # "file"
                      /\ (tree'[n].kind = "file" => tree'[n].children = << >>)]_vars

\* C21 witness: a package job ran with a list that names a directory, a
\* file below it twice and a file next to it; the directory u shared by all
\* the paths is one child of the package and has its two children.
C21_Witness ==
    /\ lastOp.op = "timeSlicedRead"
    /\ \E p \in Pkgs :
          /\ ran = <<PkgJob(p)>>
          /\ PkgPath(p) \in DOMAIN tree
          /\ tree[PkgPath(p)].readState = "DirFinished"
          /\ tree[PkgPath(p)].children = <<PkgPath(p) \o <<"u">> >>
          /\ tree[PkgPath(p) \o <<"u">>].children =
                 <<PkgPath(p) \o <<"u", "l">>, PkgPath(p) \o <<"u", "x">> >>
          /\ tree[PkgPath(p) \o <<"u", "l">>].children = <<PkgPath(p) \o <<"u", "l", "z">> >>

\* C22: addBlocked( job ) appends the job to the blocked list and binds the
\* job's queue back-reference, so that finished() of a blocked job reaches
\* jobFinishedNotify(); it does not arm the timer and does not emit
\* startingReading().
C22_BlockedJobIsBound ==
    [][(lastOp'.op = "createReadJob" /\ lastOp'.ok) =>
          LET j == <<"Pkg", lastOp'.arg>> IN
          /\ blocked' = Append(blocked, j)
          /\ j \in DOMAIN jobs'
          /\ jobs'[j].queue
          /\ timerActive' = timerActive
          /\ ~ EmittedIn(sig', "startingReading", NoDir)]_vars

\* C23: a dispatch of a CacheReadJob that has no reader calls finished()
\* once and does nothing else: the job is removed and destroyed, no line is
\* read, and no member of the job is accessed after its destruction.
C23_NoReaderJustFinishes ==
    [][\A j \in DOMAIN jobs :
         (/\ lastOp'.op = "timeSlicedRead"
          /\ queue # << >> /\ j = Head(queue)
          /\ jobs[j].kind = "Cache" /\ jobs[j].lines = NoReader) =>
            /\ j \notin DOMAIN jobs'
            /\ queue' = Tail(queue)
            /\ tree' = tree
            /\ freed' = << >>
            /\ ~ crashed']_vars

\* C24: whenever a handler of the scan (a dispatch of a job, or
\* addPkgToTree() for the Pkg: node) brings a directory to DirFinished,
\* DirOnRequestOnly or DirError, finalizeLocal( dir ) is sent before the read
\* state changes and readJobFinished( dir ) after it.
C24_FinalizeBeforeTerminal ==
    lastOp.op \in {"timeSlicedRead", "addPkgToTree"} =>
        \A i \in 1..Len(events) :
            (/\ events[i][1] = "setReadState"
             /\ events[i][3] \in {"DirFinished", "DirOnRequestOnly", "DirError"}) =>
                /\ \E k \in 1..(i - 1) : events[k] = <<"finalizeLocal", events[i][2], "">>
                /\ \E m \in (i + 1)..Len(events) :
                       events[m] = <<"readJobFinished", events[i][2], "">>

\* The directories the last handler brought to DirFinished, DirOnRequestOnly
\* or DirError.
MadeTerminal ==
    {events[i][2] : i \in {k \in 1..Len(events) :
        /\ events[k][1] = "setReadState"
        /\ events[k][3] \in {"DirFinished", "DirOnRequestOnly", "DirError"}}}

\* C25: a handler of the scan sends readJobFinished( dir ) exactly once for
\* every directory it brings to DirFinished, DirOnRequestOnly or DirError,
\* placeholders for entries that cannot be stat-ed and directories under a
\* package included, and for no other directory; the run of a job for an
\* empty directory sends one readJobFinished, no childAdded and leaves the
\* directory DirFinished.
C25_ReadJobFinishedOncePerTerminal ==
    lastOp.op \in {"timeSlicedRead", "readFileListFinished"} =>
        /\ \A d \in MadeTerminal : Count("readJobFinished", d) = 1
        /\ \A i \in 1..Len(sig) :
              sig[i][1] = "readJobFinished" => sig[i][2] \in MadeTerminal
        /\ (/\ lastOp.op = "timeSlicedRead"
            /\ ran = <<LocalJob(lastOp.arg)>>
            /\ AccessOk(lastOp.arg) /\ OpendirOk(lastOp.arg)
            /\ FsEntries(lastOp.arg) = << >>) =>
               /\ Count("readJobFinished", lastOp.arg) = 1
               /\ ~ Emitted("childAdded")
               /\ tree[lastOp.arg].readState = "DirFinished"

\* The scan of d finds a cache file that describes another directory.
CacheMismatch(d) ==
    /\ AccessOk(d) /\ OpendirOk(d)
    /\ InList(FsEntries(d), CacheName)
    /\ StatOk(d \o <<CacheName>>)
    /\ FirstDirInCache # d

JobsBoundInside(js, n) == {k \in DOMAIN js : BoundInside(js, k, n)}

\* C26: when a local job finds in its directory d a cache file whose first
\* directory is not d, readCacheFile() returns false and leaves the two
\* lists, the jobs and every directory's count of outstanding read jobs as
\* they were, the temporary CacheReadJob being destroyed; the cache file is
\* inserted as a file child of d, the job goes on with the other entries
\* and finishes normally: one readJobFinished for d, the job destroyed, the
\* jobs of the subdirectories appended to the runnable list.
C26_CacheMismatchKeepsScheduler ==
    [][\A j \in DOMAIN jobs :
         (LocalRun(j) /\ CacheMismatch(jobs[j].dir)) =>
            LET d == jobs[j].dir
                before == [Cur EXCEPT !.jobs[j].started = TRUE]
                r == ReadCacheFile(before, j)
                late == jobs[j].applyRules /\ LateMatch(d)
            IN
            /\ ~ r.result
            /\ r.s.queue = queue /\ r.s.blocked = blocked
            /\ r.s.jobs = before.jobs
            /\ r.s.tree = tree
            /\ r.s.timerActive = timerActive
            /\ CacheJob(d) \notin DOMAIN jobs'
            /\ j \notin DOMAIN jobs'
            /\ blocked' = blocked
            /\ queue' = Tail(queue) \o (IF late THEN << >> ELSE enq')
            /\ \A n \in DirNodes' :
                   tree'[n].pending = Cardinality(JobsBoundInside(jobs', n))
            /\ CountIn(sig', "readJobFinished", d) = 1
            /\ tree'[d].readState = IF late THEN "DirOnRequestOnly" ELSE "DirFinished"
            /\ ~ late =>
                  /\ Occurrences(tree'[d].children, d \o <<CacheName>>) = 1
                  /\ tree'[d \o <<CacheName>>].kind = "file"
                  /\ Len(tree'[d].children) = Len(FsEntries(d))
                  /\ EmittedIn(sig', "childAdded", d \o <<CacheName>>)]_vars

\* C26 witness: a holds a cache file written for another directory; the job
\* of a inserted it as a file, enqueued the job of c behind the job of b and
\* finished a.
C26_Witness ==
    /\ lastOp = Op("timeSlicedRead", DirA, TRUE)
    /\ cfg.cache = "mismatch"
    /\ tree[DirA].readState = "DirFinished"
    /\ InList(tree[DirA].children, DirA \o <<CacheName>>)
    /\ tree[DirA \o <<CacheName>>].kind = "file"
    /\ CacheJob(DirA) \notin DOMAIN jobs
    /\ queue = <<LocalJob(DirB), LocalJob(DirC)>>
    /\ tree[Top].pending = 2

\* The entries of d that stat() fails for.
StatFailures(d) ==
    {d \o <<FsEntries(d)[i]>> : i \in {k \in 1..Len(FsEntries(d)) :
                                          ~ StatOk(d \o <<FsEntries(d)[k]>>)}}

\* C27: when the run of a local job cannot stat an entry, the entry becomes
\* a directory child in DirError and childAdded is sent for it, no job is
\* enqueued for it and it has no children, the other entries are processed
\* all the same, and the directory ends DirFinished (or DirOnRequestOnly),
\* not DirError.
C27_StatFailurePlaceholder ==
    [][\A j \in DOMAIN jobs :
         (/\ LocalRun(j)
          /\ AccessOk(jobs[j].dir) /\ OpendirOk(jobs[j].dir)
          /\ ~ CachePreempts(jobs[j].dir)
          /\ StatFailures(jobs[j].dir) # {}) =>
            LET d == jobs[j].dir
                late == jobs[j].applyRules /\ LateMatch(d)
            IN
            /\ \A p \in StatFailures(d) :
                  /\ EmittedIn(sig', "childAdded", p)
                  /\ ~ InList(enq', LocalJob(p))
                  /\ LocalJob(p) \notin DOMAIN jobs'
                  /\ ~ late =>
                        /\ Occurrences(tree'[d].children, p) = 1
                        /\ tree'[p].kind = "dir"
                        /\ tree'[p].readState = "DirError"
                        /\ tree'[p].children = << >>
                        /\ tree'[p].pending = 0
            /\ \A i \in 1..Len(FsEntries(d)) :
                  EmittedIn(sig', "childAdded", d \o <<FsEntries(d)[i]>>)
            /\ ~ late => Len(tree'[d].children) = Len(FsEntries(d))
            /\ tree'[d].readState = IF late THEN "DirOnRequestOnly" ELSE "DirFinished"
            /\ CountIn(sig', "readJobFinished", d) = 1
            /\ j \notin DOMAIN jobs']_vars

\* C27 witness: stat() failed for a and for f in the toplevel directory; both
\* are DirError placeholders, b behind them was found and its job enqueued,
\* and the toplevel directory is DirFinished.
C27_Witness ==
    /\ lastOp = Op("timeSlicedRead", Top, TRUE)
    /\ cfg.statFail = {DirA, Top \o <<"f">>}
    /\ tree[Top].readState = "DirFinished"
    /\ tree[Top].children = <<DirA, Top \o <<"f">>, DirB>>
    /\ tree[DirA].readState = "DirError" /\ tree[DirA].kind = "dir"
    /\ tree[Top \o <<"f">>].readState = "DirError"
    /\ enq = <<LocalJob(DirB)>>
    /\ queue = <<LocalJob(DirB)>>

C29_NoJobsLeftWhenEmpty ==
    (queue = << >> /\ blocked = << >> /\ ~ crashed) =>
        /\ DOMAIN jobs = {}
        /\ \A n \in DOMAIN tree : tree[n].pending = 0

\* C30: when the packages are read and every file list process that runs
\* exits, then at some time no package job is left, in the blocked list or
\* anywhere else, and the queue has emitted finished().
C30_PkgReadingTerminates ==
    <>(/\ pkgPc.pc = "done"
       /\ blocked = << >>
       /\ \A j \in DOMAIN jobs : jobs[j].kind # "Pkg"
       /\ ~ reading)

FsDirs == {d \in {Top, DirA, DirB, DirC} : FsIsDir(d)}

\* d is on another file system than its parent, as crossingFileSystems()
\* sees it, and the scan does not cross file systems.
DisallowedMountPoint(d) ==
    OtherDevice(d) /\ ~ SameMountTableDevice(d) /\ ~ cfg.crossFileSystems

\* The scan of d's parent finds a rule for file children matching.
ParentLateExcluded(d) == Parent(d) # Top /\ LateMatch(Parent(d))

\* The scan gets to directory d: every directory above it was read, d can
\* be stat'ed, no exclude rule matches its path and it is not a disallowed
\* mount point; with lateToo, the scan of its parent did not exclude the
\* parent late.
RECURSIVE Reached(_, _)
Reached(d, lateToo) ==
    IF d = Top THEN TRUE
    ELSE /\ FsIsDir(d) /\ InList(FsEntries(Parent(d)), Last(d))
         /\ Reached(Parent(d), lateToo)
         /\ AccessOk(Parent(d)) /\ OpendirOk(Parent(d))
         /\ StatOk(d) /\ ~ ExcludeMatch(d) /\ ~ DisallowedMountPoint(d)
         /\ lateToo => ~ ParentLateExcluded(d)

Dispatched(d) == InList(history.dispatched, LocalJob(d))

\* The jobs dispatched so far are one for each directory of dirs.
OnePerDirectory(dirs) ==
    /\ Len(history.dispatched) = Cardinality(dirs)
    /\ \A d \in dirs : Dispatched(d)

ScanOver == history.finished = 1 /\ ~ timerActive /\ queue = << >>

\* C31 (as stated): in a scan without cache files and with the timer firing
\* fairly, every job passed to enqueue() is dispatched at some time, at the
\* end the jobs dispatched are one per directory the scan gets to that no
\* exclude rule matches and that is not a disallowed mount point, and
\* finished() is emitted exactly once, with the timer stopped.
C31_LocalScanTerminates ==
    /\ \A d \in FsDirs : (InList(enq, LocalJob(d)) ~> Dispatched(d))
    /\ <>[](ScanOver /\ OnePerDirectory({d \in FsDirs : Reached(d, FALSE)}))
    /\ [](history.finished <= 1)
    /\ [](Emitted("finished") => ~ timerActive)

\* C31 (amended): the same, except where a directory is excluded late: the
\* jobs its scan had enqueued for its subdirectories are destroyed in the
\* same tick and never dispatched.  Every job that is in the runnable list
\* when a handler returns is dispatched at some time, a job passed to
\* enqueue() is missing from the list at the handler's return only if the
\* handler scanned its parent and excluded it late, and at the end the jobs
\* dispatched are one per directory the scan gets to whose parent was not
\* excluded late.
C31_LocalScanTerminatesExceptLateExcluded ==
    /\ \A d \in FsDirs : (InList(queue, LocalJob(d)) ~> Dispatched(d))
    /\ [](\A d \in FsDirs :
            (InList(enq, LocalJob(d)) /\ ~ InList(queue, LocalJob(d))) =>
                /\ lastOp = Op("timeSlicedRead", Parent(d), TRUE)
                /\ ParentLateExcluded(d)
                /\ tree[Parent(d)].excluded
                /\ LocalJob(d) \notin DOMAIN jobs)
    /\ <>[](ScanOver /\ OnePerDirectory({d \in FsDirs : Reached(d, TRUE)}))
    /\ [](history.finished <= 1)
    /\ [](Emitted("finished") => ~ timerActive)

\* C31 witness: the scan is over; a was excluded late, so the job enqueued
\* for its subdirectory c was never dispatched, and the jobs of the
\* toplevel directory, a and b were dispatched once each.
C31_Witness ==
    /\ ScanOver
    /\ ParentLateExcluded(DirC)
    /\ tree[DirA].excluded
    /\ Len(history.dispatched) = 3
    /\ Dispatched(Top) /\ Dispatched(DirA) /\ Dispatched(DirB)
    /\ ~ Dispatched(DirC)
    /\ DOMAIN jobs = {}

====
